---- MODULE Spec2Model ----
(***************************************************************************)
(* A model of src/src/data_processing/wrangler.py: the DataWrangler        *)
(* object (self.df, the processed artifact on disk, the output directory)  *)
(* and the stages of its pipeline, ingest_data, _drop_rows and             *)
(* _convert_price_to_usd, as operators over data frames.                   *)
(*                                                                         *)
(* A data frame is a sequence of rows.  A row is a record whose field "id" *)
(* is the index label and whose other fields are the columns.  A cell is   *)
(* <<v>> for a value v and <<>> for NaN, so that cells of one column can   *)
(* always be compared.  Money is fixed point: a price in USD is held in    *)
(* units of 1/Scale USD, a percentile in units of 1/(Scale * 100) USD.     *)
(***************************************************************************)
EXTENDS Integers, Sequences, FiniteSets

VARIABLES
    raw_data,    \* self.raw_data_path: the input files, in glob order
    conf,        \* data_conf: the configuration the stages read
    df_in,       \* the frame a stage was called with
    normalized,  \* the price_usd column as line 135 leaves it (before trimming)
    df,          \* the local frame df of the stage that ran last
    pc,          \* position of the pipeline stage that runs on its own
    self_df,     \* self.df
    artifact,    \* the file at processed_data_path
    outdir,      \* whether dirname(processed_data_path) exists
    obj,         \* "new", "live" or "failed" (construction raised)
    before,      \* the file system as the last call found it
    last         \* the last call on the object and how it ended

vars == <<raw_data, conf, df_in, normalized, df, pc,
          self_df, artifact, outdir, obj, before, last>>

-----------------------------------------------------------------------------
(* Bounds of the model *)

MaxRows == 3
MaxFiles == 2
MaxFileRows == 2

-----------------------------------------------------------------------------
(* Cells and frames *)

Missing == <<>>
Val(v) == <<v>>
isna(c) == c = Missing

\* None, as _convert_to_usd returns it: neither a number nor NaN
None == <<"None", "None">>
\* self.df: None or a frame
NoFrame == [is_none |-> TRUE]
Frame(f) == [is_none |-> FALSE, frame |-> f]
\* the file at processed_data_path: absent, or a table without index
NoFile == [exists |-> FALSE]
File(t) == [exists |-> TRUE, table |-> t]
\* an input file: one pd.read_csv cannot read, or its rows
Unreadable == [readable |-> FALSE]
Zip(rows) == [readable |-> TRUE, rows |-> rows]

KEEP_COLUMNS == {"l1", "lat", "lon", "price", "currency"}
RAW_COLUMNS == KEEP_COLUMNS \cup {"title"}

Columns(r) == DOMAIN r \ {"id"}

SeqsUpTo(S, n) == UNION {[1..k -> S] : k \in 0..n}

RECURSIVE concat(_)
concat(frames) ==
    IF frames = <<>> THEN <<>> ELSE Head(frames) \o concat(Tail(frames))

Key(r, subset) == [c \in subset |-> r[c]]

\* keep = 'last': a row goes when a later row has its key
RECURSIVE drop_duplicates_keep_last(_, _)
drop_duplicates_keep_last(frame, subset) ==
    IF frame = <<>> THEN <<>>
    ELSE LET r == Head(frame)
             rest == Tail(frame)
         IN  IF \E j \in 1..Len(rest) : Key(rest[j], subset) = Key(r, subset)
             THEN drop_duplicates_keep_last(rest, subset)
             ELSE <<r>> \o drop_duplicates_keep_last(rest, subset)

RECURSIVE drop_duplicates_from(_, _, _)
drop_duplicates_from(frame, subset, seen) ==
    IF frame = <<>> THEN <<>>
    ELSE LET r == Head(frame)
             k == Key(r, subset)
         IN  IF k \in seen
             THEN drop_duplicates_from(Tail(frame), subset, seen)
             ELSE <<r>> \o drop_duplicates_from(Tail(frame), subset, seen \cup {k})

\* DataFrame.drop_duplicates(subset, keep='first'): the index is no column,
\* and NaN equals NaN
drop_duplicates(frame, subset) == drop_duplicates_from(frame, subset, {})

\* ignore_index = True
reset_index(frame) == [i \in 1..Len(frame) |-> [frame[i] EXCEPT !.id = i - 1]]

-----------------------------------------------------------------------------
(* ingest_data *)

\* pd.read_csv raises on a file it cannot read, pd.concat on an empty list
IngestRaises(files) ==
    files = <<>> \/ \E i \in 1..Len(files) : ~files[i].readable

\* lines 69-73: index_col = "id" makes id the index, so drop_duplicates
\* compares the columns alone
ingest_data(files) ==
    LET frames == [i \in 1..Len(files) |-> files[i].rows]
    IN  drop_duplicates(concat(frames), RAW_COLUMNS)

-----------------------------------------------------------------------------
(* clean_data, line 85: df[data_conf.keep_columns] keeps the index *)

keep_columns(frame) ==
    [i \in 1..Len(frame) |-> [c \in conf.keep_columns \cup {"id"} |-> frame[i][c]]]

-----------------------------------------------------------------------------
(* _drop_rows *)

\* Series.isin(values): NaN is in no list of country names
isin(cell, values) == ~isna(cell) /\ cell[1] \in values

\* how = 'all': a row goes only when every column of the subset is NaN
dropna_how_all(frame, subset) ==
    SelectSeq(frame, LAMBDA r : subset = {} \/ \E c \in subset : ~isna(r[c]))

\* DataFrame.dropna(subset, how='any')
dropna(frame, subset) ==
    SelectSeq(frame, LAMBDA r : \A c \in subset : ~isna(r[c]))

\* the three steps with the duplicates dropped first
drop_rows_duplicates_first(frame) ==
    LET deduped == drop_duplicates(frame, conf.drop_rows.duplicates)
        kept == SelectSeq(deduped, LAMBDA r : ~isin(r.l1, conf.drop_rows.countries))
    IN  reset_index(dropna(kept, conf.drop_rows.nan))

\* lines 117, 120, 123
drop_rows(frame) ==
    LET kept == SelectSeq(frame, LAMBDA r : ~isin(r.l1, conf.drop_rows.countries))
        full == reset_index(dropna(kept, conf.drop_rows.nan))
    IN  reset_index(drop_duplicates(full, conf.drop_rows.duplicates))

-----------------------------------------------------------------------------
(* _convert_to_usd and _convert_price_to_usd *)

\* 1 USD in fixed-point units; the rates of lines 158-164 times 100000
currency_dict ==
    [USD |-> 100000, PEN |-> 28630, ARS |-> 1430, UYU |-> 2390, COP |-> 27]
Scale == currency_dict.USD

\* the rate of USD whatever the code
convert_to_usd_ignores_code(amount, currency_code) ==
    IF ~isna(currency_code) /\ currency_code[1] \in DOMAIN currency_dict
    THEN IF isna(amount) THEN Missing ELSE Val(amount[1] * currency_dict.USD)
    ELSE None

\* lines 165-166; NaN * rate is NaN, and a code outside the table falls off
\* the end of the function, which returns None
convert_to_usd(amount, currency_code) ==
    IF ~isna(currency_code) /\ currency_code[1] \in DOMAIN currency_dict
    THEN IF isna(amount) THEN Missing
         ELSE Val(amount[1] * currency_dict[currency_code[1]])
    ELSE None

\* line 135, the row-wise apply
apply_convert(frame) ==
    [i \in 1..Len(frame) |-> convert_to_usd(frame[i].price, frame[i].currency)]

\* the Series pandas builds of the results: float64 with None as NaN once
\* one result is a float, dtype object holding the Nones when all are None
AllNone(results) == \A i \in 1..Len(results) : results[i] = None
as_float(results) ==
    [i \in 1..Len(results) |-> IF results[i] = None THEN Missing ELSE results[i]]

\* lines 135 and 138: price_usd added, price and currency dropped
with_price_usd(frame) ==
    LET col == as_float(apply_convert(frame))
    IN  [i \in 1..Len(frame) |->
            [c \in (DOMAIN frame[i] \ {"price", "currency"}) \cup {"price_usd"} |->
                IF c = "price_usd" THEN col[i] ELSE frame[i][c]]]

price_usd(frame) == [i \in 1..Len(frame) |-> frame[i].price_usd]

\* the k-th smallest of a column without NaN
sorted_at(col, k) ==
    CHOOSE v \in {col[j][1] : j \in 1..Len(col)} :
        /\ Cardinality({j \in 1..Len(col) : col[j][1] < v}) < k
        /\ k <= Cardinality({j \in 1..Len(col) : col[j][1] <= v})

\* np.percentile(col, q), linear interpolation, in units of 1/100 of the
\* column's unit; NaN when the column holds a NaN
percentile(col, q) ==
    IF \E j \in 1..Len(col) : isna(col[j]) THEN Missing
    ELSE LET n == Len(col)
             pos == (n - 1) * q
             i == pos \div 100
             gamma == pos % 100
             lo == sorted_at(col, i + 1)
             hi == sorted_at(col, IF i + 2 <= n THEN i + 2 ELSE n)
         IN  Val(lo * 100 + (hi - lo) * gamma)

\* v >= p and v <= p of floats: False when either is NaN
ge(v, p) == ~isna(v) /\ ~isna(p) /\ v[1] * 100 >= p[1]
le(v, p) == ~isna(v) /\ ~isna(p) /\ v[1] * 100 <= p[1]

\* the lower mask with > for >=
mask_price_low_strict(col, i) ==
    LET p == percentile(col, conf.outliers_percentile.price.lower)
    IN  ~isna(col[i]) /\ ~isna(p) /\ col[i][1] * 100 > p[1]

\* lines 141 and 142
mask_price_low(col, i) ==
    ge(col[i], percentile(col, conf.outliers_percentile.price.lower))
mask_price_high(col, i) ==
    le(col[i], percentile(col, conf.outliers_percentile.price.upper))

\* line 135 raises on a frame without rows (apply returns the frame, which
\* cannot be set as one column); line 141 raises on a column of dtype object
ConvertRaises(frame) == frame = <<>> \/ AllNone(apply_convert(frame))

\* lines 141-143 on the frame of line 138
trim(priced) ==
    LET col == price_usd(priced)
        keep == {i \in 1..Len(priced) : mask_price_low(col, i) /\ mask_price_high(col, i)}
        F[i \in 0..Len(priced)] ==
            IF i = 0 THEN <<>>
            ELSE IF i \in keep THEN Append(F[i - 1], priced[i]) ELSE F[i - 1]
    IN  F[Len(priced)]

convert_price_to_usd(frame) == trim(with_price_usd(frame))

\* clean_data, lines 85-91
CleanRaises(frame) == ConvertRaises(drop_rows(keep_columns(frame)))
clean_data(frame) == convert_price_to_usd(drop_rows(keep_columns(frame)))

\* DataFrame.to_csv(path, index=False): the columns without the index
to_csv(frame) ==
    [i \in 1..Len(frame) |-> [c \in Columns(frame[i]) |-> frame[i][c]]]

-----------------------------------------------------------------------------
(* Inputs *)

Row(id, l1, lat, lon, price, currency, title) ==
    [id |-> id, l1 |-> l1, lat |-> lat, lon |-> lon,
     price |-> price, currency |-> currency, title |-> title]

\* a frame as clean_data hands it on: kept columns, index labels 0, 1, ...
Kept(id, l1, lat, lon, price, currency) ==
    [id |-> id, l1 |-> l1, lat |-> lat, lon |-> lon,
     price |-> price, currency |-> currency]

Conf(countries, nan, duplicates, lower, upper) ==
    [keep_columns |-> KEEP_COLUMNS,
     drop_rows |-> [countries |-> countries, nan |-> nan, duplicates |-> duplicates],
     outliers_percentile |-> [price |-> [lower |-> lower, upper |-> upper]]]

DefaultConf == Conf({"BR"}, {"lat", "lon"}, {"lat", "lon"}, 0, 100)

Percentiles == {0, 25, 50, 100}

\* the frames of at most n rows over a set of rows, labelled 0, 1, ...
Frames(rows, n) == {reset_index(f) : f \in SeqsUpTo(rows, n)}

IdleObject ==
    /\ self_df = NoFrame
    /\ artifact = NoFile
    /\ outdir = FALSE
    /\ obj = "new"
    /\ before = [artifact |-> NoFile, outdir |-> FALSE]
    /\ last = [op |-> "none", use_exist |-> FALSE, ran_pipeline |-> FALSE,
               status |-> "ok", ret |-> NoFrame]

object_vars == <<self_df, artifact, outdir, obj, before, last>>

-----------------------------------------------------------------------------
(* ingest_data on its own *)

IngestRows ==
    {Row(id, Val("AR"), Val(1), Val(1), Val(100), Val("USD"), title) :
        id \in {1, 2}, title \in {Missing, Val("a")}}

IngestFiles == {Unreadable} \cup {Zip(f) : f \in SeqsUpTo(IngestRows, MaxFileRows)}

InitIngest ==
    /\ raw_data \in SeqsUpTo(IngestFiles, MaxFiles)
    /\ conf = DefaultConf
    /\ df_in = <<>>
    /\ normalized = <<>>
    /\ df = <<>>
    /\ pc = "ingest"
    /\ IdleObject

IngestData ==
    /\ pc = "ingest"
    /\ IF IngestRaises(raw_data)
       THEN pc' = "raised" /\ df' = df
       ELSE pc' = "ingested" /\ df' = ingest_data(raw_data)
    /\ UNCHANGED <<raw_data, conf, df_in, normalized, object_vars>>

NextIngest == IngestData

SpecIngest == InitIngest /\ [][NextIngest]_vars

-----------------------------------------------------------------------------
(* _drop_rows on its own *)

FilterRows ==
    {Kept(0, l1, lat, lon, Val(100), Val("USD")) :
        l1 \in {Missing, Val("AR"), Val("BR")},
        lat \in {Missing, Val(1)}, lon \in {Missing, Val(1)}}

FilterConfs ==
    {Conf(countries, nan, duplicates, 0, 100) :
        countries \in SUBSET {"BR"},
        nan \in SUBSET {"lat", "lon"},
        duplicates \in (SUBSET {"lat", "lon"}) \ {{}}}

InitFilter ==
    /\ raw_data = <<>>
    /\ conf \in FilterConfs
    /\ df_in \in Frames(FilterRows, MaxRows)
    /\ normalized = <<>>
    /\ df = <<>>
    /\ pc = "drop_rows"
    /\ IdleObject

DropRows ==
    /\ pc = "drop_rows"
    /\ pc' = "dropped"
    /\ df' = drop_rows(df_in)
    /\ UNCHANGED <<raw_data, conf, df_in, normalized, object_vars>>

NextFilter == DropRows

SpecFilter == InitFilter /\ [][NextFilter]_vars

-----------------------------------------------------------------------------
(* _convert_price_to_usd on its own *)

ConvertPriceToUsd ==
    /\ pc = "convert"
    /\ IF ConvertRaises(df_in)
       THEN pc' = "raised" /\ UNCHANGED <<normalized, df>>
       ELSE /\ pc' = "converted"
            /\ normalized' = with_price_usd(df_in)
            /\ df' = convert_price_to_usd(df_in)
    /\ UNCHANGED <<raw_data, conf, df_in, object_vars>>

\* every rate of the table, one band
ConvertRows ==
    {Kept(0, Val("AR"), Val(1), Val(1), price, currency) :
        price \in {Missing, Val(1), Val(100)},
        currency \in {Val(c) : c \in DOMAIN currency_dict \cup {"BRL"}}}

InitConvert ==
    /\ raw_data = <<>>
    /\ conf = Conf({}, {}, {"lat", "lon"}, 25, 100)
    /\ df_in \in Frames(ConvertRows, MaxRows)
    /\ normalized = <<>>
    /\ df = <<>>
    /\ pc = "convert"
    /\ IdleObject

NextConvert == ConvertPriceToUsd

SpecConvert == InitConvert /\ [][NextConvert]_vars

\* every band, two currencies of the table and one outside it
TrimRows ==
    {Kept(0, Val("AR"), Val(1), Val(1), price, Val(currency)) :
        price \in {Val(1), Val(2), Val(4)},
        currency \in {"USD", "BRL"}}

InitTrim ==
    /\ raw_data = <<>>
    /\ conf \in {Conf({}, {}, {"lat", "lon"}, lower, upper) :
                    lower \in Percentiles, upper \in Percentiles}
    /\ df_in \in Frames(TrimRows, MaxRows)
    /\ normalized = <<>>
    /\ df = <<>>
    /\ pc = "convert"
    /\ IdleObject

SpecTrim == InitTrim /\ [][NextConvert]_vars

-----------------------------------------------------------------------------
(* Properties of the stages *)

\* the rows of a frame at the positions of keep, in order
Subsequence(rows, keep) ==
    LET F[i \in 0..Len(rows)] ==
            IF i = 0 THEN <<>>
            ELSE IF i \in keep THEN Append(F[i - 1], rows[i]) ELSE F[i - 1]
    IN  F[Len(rows)]

\* the records of a frame, index labels aside
Records(frame) == [i \in 1..Len(frame) |-> [c \in Columns(frame[i]) |-> frame[i][c]]]

AllRows == concat([i \in 1..Len(raw_data) |-> raw_data[i].rows])
EqualOnColumns(r, s) == \A c \in RAW_COLUMNS : r[c] = s[c]
FirstOccurrences(rows) ==
    {i \in 1..Len(rows) : \A j \in 1..(i - 1) : ~EqualOnColumns(rows[i], rows[j])}

\* C9: the Ingestor's output is the concatenation of the files' rows, in file
\* order and row order, without the rows that equal an earlier row on all
\* columns; no two rows of it are equal on all columns, and deduplicating it
\* again changes nothing.
C9_IngestDedup ==
    pc = "ingested" =>
        /\ df = Subsequence(AllRows, FirstOccurrences(AllRows))
        /\ \A i, j \in 1..Len(df) : i < j => ~EqualOnColumns(df[i], df[j])
        /\ drop_duplicates(df, RAW_COLUMNS) = df

C9_Witness ==
    /\ pc = "ingested"
    /\ Len(raw_data) = 2
    /\ raw_data[1].rows # <<>> /\ raw_data[2].rows # <<>>
    /\ Len(df) >= 2
    /\ \E i \in 1..Len(AllRows) :
          /\ i \notin FirstOccurrences(AllRows)
          /\ \E j \in 1..(i - 1) : AllRows[j] \in {df[k] : k \in 1..Len(df)}
                                   /\ EqualOnColumns(AllRows[i], AllRows[j])
                                   /\ AllRows[i].id # AllRows[j].id

Excluded(r) == r.l1 # Missing /\ r.l1[1] \in conf.drop_rows.countries
HasMissing(r) == \E c \in conf.drop_rows.nan : r[c] = Missing
SameKey(r, s) == \A c \in conf.drop_rows.duplicates : r[c] = s[c]

\* C1: after the Row Filter no record is of an excluded category, none has a
\* missing value in a required column, and no two share their key columns.
C1_RowFilterInvariant ==
    pc = "dropped" =>
        /\ \A i \in 1..Len(df) : ~Excluded(df[i])
        /\ \A i \in 1..Len(df) : ~HasMissing(df[i])
        /\ \A i, j \in 1..Len(df) : i < j => ~SameKey(df[i], df[j])

C1_Witness ==
    /\ pc = "dropped"
    /\ Len(df_in) = 3
    /\ Len(df) = 1
    /\ \E i \in 1..3 : Excluded(df_in[i]) /\ ~HasMissing(df_in[i])
    /\ \E i \in 1..3 : HasMissing(df_in[i]) /\ ~Excluded(df_in[i])

\* the three criteria, each evaluated on the input population alone
IndependentKeep(rows) ==
    {i \in 1..Len(rows) :
        /\ ~Excluded(rows[i])
        /\ ~HasMissing(rows[i])
        /\ ~\E j \in 1..(i - 1) : SameKey(rows[j], rows[i])}

\* C2 as stated: the Row Filter's result is the intersection of the three
\* criteria evaluated independently on the input, a key duplicate being a
\* record that duplicates an earlier record of the input.
C2_IndependentIntersection ==
    pc = "dropped" =>
        Records(df) = Records(Subsequence(df_in, IndependentKeep(df_in)))

\* a key duplicate being a record that duplicates an earlier record which
\* itself passes the category and the missing-value criteria
SurvivorKeep(rows) ==
    {i \in 1..Len(rows) :
        /\ ~Excluded(rows[i])
        /\ ~HasMissing(rows[i])
        /\ ~\E j \in 1..(i - 1) : /\ ~Excluded(rows[j])
                                  /\ ~HasMissing(rows[j])
                                  /\ SameKey(rows[j], rows[i])}

\* C2 amended: the Row Filter's result is the records that pass the category
\* and the missing-value criteria, each evaluated independently on the input
\* (one record may fail both), and that duplicate the key of no earlier
\* record that passes both.
C2_SurvivorIntersection ==
    pc = "dropped" =>
        Records(df) = Records(Subsequence(df_in, SurvivorKeep(df_in)))

C2_Witness ==
    /\ pc = "dropped"
    /\ \E i \in 1..Len(df_in) : Excluded(df_in[i]) /\ HasMissing(df_in[i])
    /\ \E i \in 1..Len(df_in) :
          /\ i \in SurvivorKeep(df_in)
          /\ i \notin IndependentKeep(df_in)
    /\ Len(df) >= 1

InTable(code) == code \in {Val("USD"), Val("PEN"), Val("ARS"), Val("UYU"), Val("COP")}

\* the rates of the specification, in units of 1/100000
RateOf(code) ==
    CASE code = Val("USD") -> 100000
      [] code = Val("PEN") -> 28630
      [] code = Val("ARS") -> 1430
      [] code = Val("UYU") -> 2390
      [] code = Val("COP") -> 27

\* C4: the normalized price of a record whose currency is in the table is its
\* own amount times the rate of its own currency, whatever the other records
\* are; 100 PEN is 28.63 USD.
C4_OwnAmountOwnRate ==
    pc = "converted" =>
        /\ Len(normalized) = Len(df_in)
        /\ \A i \in 1..Len(df_in) :
              (InTable(df_in[i].currency) /\ ~isna(df_in[i].price)) =>
                  normalized[i].price_usd =
                      Val(df_in[i].price[1] * RateOf(df_in[i].currency))
        /\ \A i \in 1..Len(df_in) :
              (df_in[i].currency = Val("PEN") /\ df_in[i].price = Val(100)) =>
                  normalized[i].price_usd = Val(2863000)
        /\ \A k \in 1..Len(df) : df[k] = normalized[df[k].id + 1]

C4_Witness ==
    /\ pc = "converted"
    /\ Len(df_in) = 3
    /\ \E i \in 1..3 : /\ df_in[i].currency = Val("PEN")
                       /\ df_in[i].price = Val(100)
                       /\ normalized[i].price_usd = Val(2863000)
                       /\ normalized[i] \in {df[k] : k \in 1..Len(df)}
    /\ \E i \in 1..3 : df_in[i].currency = Val("COP") /\ df_in[i].price = Val(1)

\* C3: a record whose currency is outside the table is dropped, or the run
\* fails, or its price passes through; no missing normalized price of such
\* a record reaches the percentile computation.
C3_UnknownCurrencyPolicy ==
    pc = "converted" =>
        \A i \in 1..Len(df_in) :
            ~InTable(df_in[i].currency) =>
                \/ Len(normalized) < Len(df_in)
                \/ ~isna(normalized[i].price_usd)

LowerBound == percentile(price_usd(normalized), conf.outliers_percentile.price.lower)
UpperBound == percentile(price_usd(normalized), conf.outliers_percentile.price.upper)
InBand(v) ==
    /\ v # Missing /\ LowerBound # Missing /\ UpperBound # Missing
    /\ LowerBound[1] <= v[1] * 100
    /\ v[1] * 100 <= UpperBound[1]

\* C5: the Outlier Trimmer keeps exactly the records whose normalized price
\* lies in the closed band of the two percentiles of the prices entering it;
\* a record whose price is one of the two bounds of a band is kept.
C5_ClosedBand ==
    pc = "converted" =>
        /\ df = Subsequence(normalized,
                    {i \in 1..Len(normalized) : InBand(normalized[i].price_usd)})
        /\ \A k \in 1..Len(df) : InBand(df[k].price_usd)
        /\ \A i \in 1..Len(normalized) :
              ( /\ LowerBound # Missing /\ UpperBound # Missing
                /\ LowerBound[1] <= UpperBound[1]
                /\ normalized[i].price_usd[1] * 100 \in {LowerBound[1], UpperBound[1]} )
              => normalized[i] \in {df[k] : k \in 1..Len(df)}

C5_Witness ==
    /\ pc = "converted"
    /\ LowerBound # Missing
    /\ Len(normalized) = 3
    /\ Len(df) = 2
    /\ LowerBound[1] < UpperBound[1]
    /\ \E k \in 1..2 : df[k].price_usd[1] * 100 = LowerBound[1]
    /\ \E k \in 1..2 : df[k].price_usd[1] * 100 = UpperBound[1]

\* C6: with the band 0 to 100 the trimmer is a no-op: as many records leave
\* it as entered it.
C6_FullBandKeepsAll ==
    ( /\ pc = "converted"
      /\ conf.outliers_percentile.price.lower = 0
      /\ conf.outliers_percentile.price.upper = 100 )
    => Len(df) = Len(normalized)

-----------------------------------------------------------------------------
(* The DataWrangler object *)

\* pd.read_csv has no parameter index: line 27 raises TypeError whenever it runs
PostInitRaises == artifact.exists

\* save_data, lines 103-107, on the frame of line 103: makedirs, then to_csv.
\* None has no to_csv; the directory is made before the file is opened.
save_data(frame, mkdir_ok, write_ok) ==
    IF ~outdir /\ ~mkdir_ok
    THEN [status |-> "raised", artifact |-> artifact, outdir |-> outdir]
    ELSE IF frame.is_none \/ ~write_ok
    THEN [status |-> "raised", artifact |-> artifact, outdir |-> TRUE]
    ELSE [status |-> "ok", artifact |-> File(to_csv(frame.frame)), outdir |-> TRUE]

\* wrangle_data, lines 55-59: clean_data has assigned self.df (line 93)
\* before save_data runs
wrangle_data(mkdir_ok, write_ok) ==
    IF IngestRaises(raw_data) \/ CleanRaises(ingest_data(raw_data))
    THEN [status |-> "raised", self_df |-> self_df, ret |-> NoFrame,
          artifact |-> artifact, outdir |-> outdir]
    ELSE LET cleaned == Frame(clean_data(ingest_data(raw_data)))
             saved == save_data(cleaned, mkdir_ok, write_ok)
         IN  [status |-> saved.status, self_df |-> cleaned,
              ret |-> IF saved.status = "ok" THEN cleaned ELSE NoFrame,
              artifact |-> saved.artifact, outdir |-> saved.outdir]

Called(op, use_exist, ran_pipeline, status, ret) ==
    [op |-> op, use_exist |-> use_exist, ran_pipeline |-> ran_pipeline,
     status |-> status, ret |-> ret]

PostInit ==
    /\ obj = "new"
    /\ before' = [artifact |-> artifact, outdir |-> outdir]
    /\ IF PostInitRaises
       THEN obj' = "failed" /\ last' = Called("post_init", FALSE, FALSE, "raised", NoFrame)
       ELSE obj' = "live" /\ last' = Called("post_init", FALSE, FALSE, "ok", NoFrame)
    /\ self_df' = NoFrame
    /\ UNCHANGED <<raw_data, conf, df_in, normalized, df, pc, artifact, outdir>>

RunPipeline(op, use_exist) ==
    \E mkdir_ok \in BOOLEAN, write_ok \in BOOLEAN :
        LET r == wrangle_data(mkdir_ok, write_ok)
        IN  /\ self_df' = r.self_df
            /\ artifact' = r.artifact
            /\ outdir' = r.outdir
            /\ last' = Called(op, use_exist, TRUE, r.status, r.ret)

LoadData(use_exist) ==
    /\ obj = "live"
    /\ before' = [artifact |-> artifact, outdir |-> outdir]
    /\ IF use_exist /\ ~self_df.is_none
       THEN /\ last' = Called("load_data", use_exist, FALSE, "ok", self_df)
            /\ UNCHANGED <<self_df, artifact, outdir>>
       ELSE RunPipeline("load_data", use_exist)
    /\ UNCHANGED <<raw_data, conf, df_in, normalized, df, pc, obj>>

WrangleData ==
    /\ obj = "live"
    /\ before' = [artifact |-> artifact, outdir |-> outdir]
    /\ RunPipeline("wrangle_data", FALSE)
    /\ UNCHANGED <<raw_data, conf, df_in, normalized, df, pc, obj>>

\* clean_data called with the frame ingest_data returns
CleanData ==
    /\ obj = "live"
    /\ ~IngestRaises(raw_data)
    /\ before' = [artifact |-> artifact, outdir |-> outdir]
    /\ IF CleanRaises(ingest_data(raw_data))
       THEN /\ last' = Called("clean_data", FALSE, FALSE, "raised", NoFrame)
            /\ self_df' = self_df
       ELSE /\ self_df' = Frame(clean_data(ingest_data(raw_data)))
            /\ last' = Called("clean_data", FALSE, FALSE, "ok", self_df')
    /\ UNCHANGED <<raw_data, conf, df_in, normalized, df, pc, obj, artifact, outdir>>

\* save_data called without a frame (df = None, line 103 takes self.df)
SaveData ==
    /\ obj = "live"
    /\ before' = [artifact |-> artifact, outdir |-> outdir]
    /\ \E mkdir_ok \in BOOLEAN, write_ok \in BOOLEAN :
          LET r == save_data(self_df, mkdir_ok, write_ok)
          IN  /\ artifact' = r.artifact
              /\ outdir' = r.outdir
              /\ last' = Called("save_data", FALSE, FALSE, r.status, NoFrame)
    /\ UNCHANGED <<raw_data, conf, df_in, normalized, df, pc, obj, self_df>>

\* two records apart in their keys, one of them in a currency outside the table
LifeRows ==
    {Row(1, Val("AR"), Val(1), Val(1), Val(100), Val("USD"), Val("a")),
     Row(2, Val("AR"), Val(1), Val(2), Val(100), Val("BRL"), Val("a"))}

LifeFiles == {Unreadable} \cup {Zip(f) : f \in SeqsUpTo(LifeRows, MaxFileRows)}

\* what an earlier run left at processed_data_path
OldTable == <<[l1 |-> Val("AR"), lat |-> Val(1), lon |-> Val(1),
               price_usd |-> Val(100 * Scale)]>>

Init ==
    /\ raw_data \in SeqsUpTo(LifeFiles, MaxFiles)
    /\ conf = DefaultConf
    /\ df_in = <<>>
    /\ normalized = <<>>
    /\ df = <<>>
    /\ pc = "object"
    /\ self_df = NoFrame
    /\ artifact \in {NoFile, File(OldTable)}
    /\ outdir \in BOOLEAN
    /\ artifact.exists => outdir
    /\ obj = "new"
    /\ before = [artifact |-> artifact, outdir |-> outdir]
    /\ last = Called("none", FALSE, FALSE, "ok", NoFrame)

Next ==
    \/ PostInit
    \/ \E use_exist \in BOOLEAN : LoadData(use_exist)
    \/ WrangleData
    \/ CleanData
    \/ SaveData

Spec == Init /\ [][Next]_vars

\* C7: a run of the pipeline that fails has written nothing: the artifact and
\* the output directory are as the run found them.
C7_NothingWrittenOnFailure ==
    (last.ran_pipeline /\ last.status = "raised") =>
        (artifact = before.artifact /\ outdir = before.outdir)

\* C8: with the artifact in place, construction succeeds and self.df, which
\* load_data(use_exist=True) returns, is the table of the artifact.
C8_ReuseExistingArtifact ==
    (last.op = "post_init" /\ before.artifact.exists) =>
        /\ obj = "live"
        /\ ~self_df.is_none
        /\ Records(self_df.frame) = before.artifact.table

\* C10: when load_data(use_exist=True) returns a table without running the
\* pipeline, the artifact exists and holds the records of that table.
C10_ReturnedTableIsPersisted ==
    (last.op = "load_data" /\ last.use_exist /\ ~last.ran_pipeline) =>
        /\ artifact.exists
        /\ artifact.table = Records(last.ret.frame)

====
